---- MODULE Spec2Model ----
(***************************************************************************)
(* PortLib client: the HTTP client (apiClient), the auth store, the        *)
(* dashboard data hook, the book detail and book browsing queries and the  *)
(* days-left / fine-total helpers, modelled as state machines.             *)
(*                                                                         *)
(* A value that may be null/undefined in the source is an option here:     *)
(* None is <<>>, Some(v) is <<v>>.                                         *)
(***************************************************************************)
EXTENDS Integers, Sequences, FiniteSets, TLC

None == <<>>
Some(v) == <<v>>
IsSome(o) == o # <<>>
Get(o) == o[1]
Opt(S) == {None} \cup {Some(v) : v \in S}

\* JavaScript truthiness of a string | null value.
Truthy(o) == IsSome(o) /\ Get(o) # ""

(***************************************************************************)
(* State. Each group of variables is one component; a specification below  *)
(* runs one component and leaves the others idle.                          *)
(***************************************************************************)
\* HTTP client and auth store.
VARIABLES
  platform,     \* "web" (window.localStorage exists) or "native"
  authStore,    \* useAuthStore state: user, token, isAuthenticated, hydrated
  storage,      \* the platform key-value store: keys auth_token, auth_state
  pending,      \* the apiClient call whose fetch is issued and not yet answered
  settled,      \* the last apiClient call that settled, with its outcome
  navigator     \* what AppNavigator has rendered: the routes of its stack and the current one

\* useDashboardData.
VARIABLES
  state,        \* DashboardState: data, isLoading, isRefreshing, isPaying, error, payError
  tasks,        \* the calls of fetchData / refresh / payFine that have not settled
  calls,        \* number of calls started so far (the mount fetch is call 1)
  fetchStarts,  \* number of fetchData calls started so far
  dataFrom,     \* which fetchData call (by start order) wrote state.data; 0: none
  finePaid,     \* server: whether the fine has been paid
  lastReturn    \* what the last settled payFine call returned

\* Fine totals: the raw overdue response and the total computed from it.
VARIABLES
  fineInput,    \* the response of GET /api/borrow/overdue handed to the reducer
  fineTotal     \* totalFines, once computed

\* Days left: the clock, the due date and what each dashboard computed.
VARIABLES
  zone,         \* the local time zone: "fixed", or with a DST change "spring" / "autumn"
  nowInstant,   \* new Date(): hours since the epoch
  dueInstant,   \* the borrow's due date, as an instant; None when missing
  webDaysLeft,  \* web StudentDashboard: calculateDaysLeft(dueDate)
  mobileDays    \* mobile StudentDashboard: getDaysLeft / getDaysOverdue

\* BookDetailView: its props, the server's record of the book, the
\* (book-detail, barcode) query and the borrow mutation.
VARIABLES
  bookProps,       \* barcode, initialBookData, forceLoading, onBorrowOverride
  bookServer,      \* the availability the server holds for the barcode
  bookQuery,       \* data, error, fetching, isInvalidated
  borrowMutation,  \* "idle", "pending", "success" or "error"
  borrowClicks     \* how often Borrow Book was pressed

\* BookBrowsingPage: its props, the books-browse infinite query of one query
\* key, and the GET requests issued for it, in order.
VARIABLES
  browseProps,     \* initialData, forceLoading
  availabilityFilter, \* the filter state: "all" or an availability
  catalogue,       \* the server's listing: the availabilities of the books of each page
  booksQuery,      \* pages, fetching (the fetch whose result is awaited), error
  network          \* the requests: page parameter and whether settled

\* Availability badges: a raw status string and what each view makes of it.
VARIABLES
  statusRaw,    \* book.availability as received, a sequence of fragments
  detailBadge,  \* BookDetailView: availabilityStyles
  cardBadge     \* BookBrowsingPage: the badge of renderBookCard

\* Greetings: the wall clock and what each dashboard shows.
VARIABLES
  clockHour,      \* new Date().getHours()
  webGreeting,    \* web StudentDashboard: the memoized greeting, once mounted
  webShown,       \* web StudentDashboard: the hour of the last render and its text
  mobileShown     \* mobile StudentDashboard: the hour of the last render and its text

\* UserProfilePage, the change-password panel.
VARIABLES
  passwordProps,     \* onPasswordChangeOverride given or not
  showPasswordPanel, \* whether the panel is open
  passwordForm,      \* currentPassword, newPassword, confirmPassword
  passwordMutation,  \* "idle", "pending", "success" or "error"
  passwordCalls      \* the payloads mutationFn was called with, in order

\* Whether the screen that uses useDashboardData is still mounted.
VARIABLES
  dashMounted

\* Resource services: one call of a service function, the HTTP client
\* calls it made, the answer of the client and what the call settled with.
VARIABLES
  svcCall,    \* the function called and its arguments; None before the call
  svcHttp,    \* the apiClient calls made, in order
  svcAnswer,  \* how the apiClient call settled
  svcResult   \* how the service call settled


\* UserProfilePage: its props, the profileForm state, the ["profile"] query,
\* whether the installed query library still runs a query's onSuccess option,
\* and the number of GET /profile requests issued.
VARIABLES
  profileProps,
  profileForm,
  profileQuery,
  queryCallbacks,
  profileFetches


\* ThemeProvider: its state, the mode the rendered toggleTheme closes over,
\* the value SecureStore holds under "portlib-theme-mode", the writes issued
\* and not yet completed (in issue order), and a record of what happened to
\* the writes so far.
VARIABLES
  themeMode,
  themeReady,
  themeRendered,
  themeStored,
  themeWrites,
  themeToggles,
  themeWriteFailed,
  themeOvertaken

apiVars == <<platform, authStore, storage, pending, settled, navigator>>
dashVars == <<state, tasks, calls, fetchStarts, dataFrom, finePaid, lastReturn>>
fineVars == <<fineInput, fineTotal>>
dayVars == <<zone, nowInstant, dueInstant, webDaysLeft, mobileDays>>
bookVars == <<bookProps, bookServer, bookQuery, borrowMutation, borrowClicks>>
browseVars == <<browseProps, availabilityFilter, catalogue, booksQuery, network>>
availVars == <<statusRaw, detailBadge, cardBadge>>
greetVars == <<clockHour, webGreeting, webShown, mobileShown>>
passwordVars == <<passwordProps, showPasswordPanel, passwordForm, passwordMutation, passwordCalls>>
mountVars == <<dashMounted>>
svcVars == <<svcCall, svcHttp, svcAnswer, svcResult>>
profileVars == <<profileProps, profileForm, profileQuery, queryCallbacks, profileFetches>>
themeVars == <<themeMode, themeReady, themeRendered, themeStored, themeWrites, themeToggles, themeWriteFailed, themeOvertaken>>
vars == <<apiVars, dashVars, fineVars, dayVars, bookVars, browseVars, availVars, greetVars, passwordVars, mountVars, svcVars, profileVars, themeVars>>

\* What an action of one component leaves alone in the others.
exceptApi == <<dashVars, fineVars, dayVars, bookVars, browseVars, availVars, greetVars, passwordVars, mountVars, svcVars, profileVars, themeVars>>
exceptDash == <<apiVars, fineVars, dayVars, bookVars, browseVars, availVars, greetVars, passwordVars, mountVars, svcVars, profileVars, themeVars>>
exceptFines == <<apiVars, dashVars, dayVars, bookVars, browseVars, availVars, greetVars, passwordVars, mountVars, svcVars, profileVars, themeVars>>
exceptDays == <<apiVars, dashVars, fineVars, bookVars, browseVars, availVars, greetVars, passwordVars, mountVars, svcVars, profileVars, themeVars>>
exceptBook == <<apiVars, dashVars, fineVars, dayVars, browseVars, availVars, greetVars, passwordVars, mountVars, svcVars, profileVars, themeVars>>
exceptBrowse == <<apiVars, dashVars, fineVars, dayVars, bookVars, availVars, greetVars, passwordVars, mountVars, svcVars, profileVars, themeVars>>
exceptAvail == <<apiVars, dashVars, fineVars, dayVars, bookVars, browseVars, greetVars, passwordVars, mountVars, svcVars, profileVars, themeVars>>
exceptGreet == <<apiVars, dashVars, fineVars, dayVars, bookVars, browseVars, availVars, passwordVars, mountVars, svcVars, profileVars, themeVars>>
exceptPassword == <<apiVars, dashVars, fineVars, dayVars, bookVars, browseVars, availVars, greetVars, mountVars, svcVars, profileVars, themeVars>>
exceptMount == <<apiVars, fineVars, dayVars, bookVars, browseVars, availVars, greetVars, passwordVars, svcVars, profileVars, themeVars>>
exceptSvc == <<apiVars, dashVars, fineVars, dayVars, bookVars, browseVars, availVars, greetVars, passwordVars, mountVars, profileVars, themeVars>>
exceptProfile == <<apiVars, dashVars, fineVars, dayVars, bookVars, browseVars, availVars, greetVars, passwordVars, mountVars, svcVars, themeVars>>
exceptTheme == <<apiVars, dashVars, fineVars, dayVars, bookVars, browseVars, availVars, greetVars, passwordVars, mountVars, svcVars, profileVars>>

(***************************************************************************)
(* HTTP client and auth store: state.                                      *)
(***************************************************************************)

Tokens == {"t1", "t2"}
TokenValues == Opt(Tokens \cup {""})
Users == Opt({"u1"})
Methods == {"GET", "POST", "PUT", "DELETE"}
Endpoints == {"/api/borrow/current"}

InitialAuthState ==
  [user |-> None, token |-> None, isAuthenticated |-> FALSE, hydrated |-> FALSE]

\* AppNavigator. Its render depends on the store's hydrated and
\* isAuthenticated only: a spinner, the stack with StudentDashboard, or the
\* stack with AuthScreen and SignUp. A stack that stays keeps its current
\* route; a stack that replaces another starts at its initialRouteName.
NoNavigator == [routes |-> {}, current |-> None]

AppNavigatorNoHydrationGate(store, nav) ==
  LET routes == IF store.isAuthenticated THEN {"StudentDashboard"}
                ELSE {"AuthScreen", "SignUp"}
      initialRouteName == IF store.isAuthenticated THEN "StudentDashboard"
                          ELSE "AuthScreen"
  IN [routes |-> routes,
      current |-> IF nav.routes = routes THEN nav.current ELSE Some(initialRouteName)]

AppNavigator(store, nav) ==
  IF ~store.hydrated THEN NoNavigator
  ELSE LET routes == IF store.isAuthenticated THEN {"StudentDashboard"}
                     ELSE {"AuthScreen", "SignUp"}
           initialRouteName == IF store.isAuthenticated THEN "StudentDashboard"
                               ELSE "AuthScreen"
       IN [routes |-> routes,
           current |-> IF nav.routes = routes THEN nav.current
                       ELSE Some(initialRouteName)]

\* navigation.navigate(route) from a screen: only a route of the rendered
\* stack can become current.
NavigateTo(route) ==
  /\ route \in navigator.routes
  /\ navigator' = [navigator EXCEPT !.current = Some(route)]
  /\ UNCHANGED <<platform, authStore, storage, pending, settled>>
  /\ UNCHANGED exceptApi

\* persist(): every set() writes the whole state under the key "auth-state".
Persist(st, store) == [store EXCEPT !.auth_state = Some(st)]

SetHydrated(value) ==
  /\ authStore' = [authStore EXCEPT !.hydrated = value]
  /\ storage' = Persist(authStore', storage)

\* onRehydrateStorage: the persisted state, if any, is merged into the store
\* and the callback then calls setHydrated(true).
Rehydrate ==
  /\ ~authStore.hydrated
  /\ LET merged == IF IsSome(storage.auth_state)
                     THEN Get(storage.auth_state) ELSE authStore
     IN /\ authStore' = [merged EXCEPT !.hydrated = TRUE]
        /\ storage' = Persist(authStore', storage)
  /\ navigator' = AppNavigator(authStore', navigator)
  /\ UNCHANGED <<platform, pending, settled>>
  /\ UNCHANGED exceptApi

\* setAuth, had it taken any token that is not null for a session.
SetAuthTokenPresent(user, token) ==
  /\ authStore' = [authStore EXCEPT !.user = user, !.token = token,
                                    !.isAuthenticated = IsSome(token)]
  /\ storage' = Persist(authStore', storage)
  /\ navigator' = AppNavigator(authStore', navigator)
  /\ UNCHANGED <<platform, pending, settled>>
  /\ UNCHANGED exceptApi

SetAuth(user, token) ==
  /\ authStore' = [authStore EXCEPT !.user = user, !.token = token,
                                    !.isAuthenticated = Truthy(token)]
  /\ storage' = Persist(authStore', storage)
  /\ navigator' = AppNavigator(authStore', navigator)
  /\ UNCHANGED <<platform, pending, settled>>
  /\ UNCHANGED exceptApi

Logout ==
  /\ authStore' = [authStore EXCEPT !.user = None, !.token = None,
                                    !.isAuthenticated = FALSE]
  /\ storage' = Persist(authStore', storage)
  /\ navigator' = AppNavigator(authStore', navigator)
  /\ UNCHANGED <<platform, pending, settled>>
  /\ UNCHANGED exceptApi

\* The login flow (outside useAuthStore) writes and removes the token that the
\* HTTP client reads.
StoreAuthToken(t) ==
  /\ storage' = [storage EXCEPT !.auth_token = Some(t)]
  /\ UNCHANGED <<platform, authStore, pending, settled, navigator>>
  /\ UNCHANGED exceptApi

RemoveAuthToken ==
  /\ IsSome(storage.auth_token)
  /\ storage' = [storage EXCEPT !.auth_token = None]
  /\ UNCHANGED <<platform, authStore, pending, settled, navigator>>
  /\ UNCHANGED exceptApi

\* authService.getToken() on native: the token kept in secure storage.
AuthServiceGetToken == storage.auth_token

\* getAuthToken: localStorage.getItem("auth_token") || null on the web,
\* authService.getToken() on native, null when either throws.
GetAuthToken(throws) ==
  IF throws THEN None
  ELSE IF platform = "web"
    THEN (IF Truthy(storage.auth_token) THEN storage.auth_token ELSE None)
    ELSE AuthServiceGetToken

GetAuthHeadersBearerAlways(token) ==
  [ContentType |-> "application/json",
   Authorization |-> Some("Bearer " \o (IF IsSome(token) THEN Get(token) ELSE "null"))]

\* getAuthHeaders: Authorization is added only for a truthy token.
GetAuthHeaders(token) ==
  [ContentType |-> "application/json",
   Authorization |-> IF Truthy(token) THEN Some("Bearer " \o Get(token)) ELSE None]

(***************************************************************************)
(* HTTP client: responses, errors and the four request methods.            *)
(***************************************************************************)
\* What fetch() can deliver: no response at all (it rejects with an Error
\* carrying the transport's message), or a response with a status and a body.
\* A body either fails to parse as JSON, or parses to null, to a scalar, or
\* to an object that may carry "message" and "errors".
TransportMessages == {"Failed to fetch", "Network request failed", ""}
Statuses == {200, 204, 404, 500}
BodyMessages == Opt({"", "Book not found"})
BodyErrors == Opt({"fieldErrors"})
Bodies ==
  {[parse |-> p, message |-> None, errors |-> None] : p \in {"fail", "null", "scalar"}}
  \cup {[parse |-> "object", message |-> m, errors |-> e] :
          m \in BodyMessages, e \in BodyErrors}
Responses ==
  {[kind |-> "network", status |-> 0, body |-> [parse |-> "fail", message |-> None, errors |-> None],
    message |-> m] : m \in TransportMessages}
  \cup {[kind |-> "http", status |-> s, body |-> b, message |-> ""] :
          s \in Statuses, b \in Bodies}

\* response.ok
Ok(resp) == resp.status >= 200 /\ resp.status <= 299

GenericMessage == "An unexpected error occurred"

MkError(cls, message, statusCode, errors) ==
  [cls |-> cls, message |-> message, statusCode |-> statusCode, errors |-> errors]

Resolved(data) == [kind |-> "resolved", data |-> Some(data), error |-> None]
Rejected(err) == [kind |-> "rejected", data |-> None, error |-> Some(err)]

\* The body of "if (!response.ok) { ... throw new ApiClientError(...) }".
\* response.json().catch(() => ({message: "Request failed"})) replaces only a
\* body that does not parse; reading .message of a body that parsed to null
\* throws a TypeError before the ApiClientError is built.
ErrorOfResponse(method, endpoint, resp) ==
  LET fallback == method \o " " \o endpoint \o " failed" IN
  CASE resp.body.parse = "fail" ->
         MkError("ApiClientError", "Request failed", Some(resp.status), None)
    [] resp.body.parse = "null" ->
         MkError("TypeError", "Cannot read properties of null", None, None)
    [] OTHER ->
         MkError("ApiClientError",
                 IF Truthy(resp.body.message) THEN Get(resp.body.message) ELSE fallback,
                 Some(resp.status), resp.body.errors)

\* apiClient.get / post / put / delete after the headers are built: the four
\* methods differ only in the method name and the request body.
ClientOutcome(method, endpoint, resp) ==
  IF resp.kind = "network"
    THEN Rejected(MkError("TypeError", resp.message, None, None))
  ELSE IF ~Ok(resp)
    THEN Rejected(ErrorOfResponse(method, endpoint, resp))
  ELSE IF resp.body.parse = "fail"
    THEN Rejected(MkError("SyntaxError", "Unexpected end of JSON input", None, None))
  ELSE Resolved(resp.body)

HandleApiErrorGeneric(error) ==
  [message |-> GenericMessage, errors |-> None, statusCode |-> None]

\* handleApiError
HandleApiError(error) ==
  IF error.cls = "ApiClientError"
    THEN [message |-> error.message, errors |-> error.errors,
          statusCode |-> error.statusCode]
  ELSE IF error.cls \in {"TypeError", "SyntaxError", "Error"}
    THEN [message |-> IF error.message # "" THEN error.message ELSE GenericMessage,
          errors |-> None, statusCode |-> None]
  ELSE [message |-> GenericMessage, errors |-> None, statusCode |-> None]

\* An apiClient call up to its fetch(): the headers are built from the token
\* read now; readFailed records that reading the token threw.
ApiStart(method, endpoint, throws) ==
  /\ pending = None
  /\ pending' = Some([method |-> method, endpoint |-> endpoint,
                      headers |-> GetAuthHeaders(GetAuthToken(throws)),
                      readFailed |-> throws])
  /\ UNCHANGED <<platform, authStore, storage, settled, navigator>>
  /\ UNCHANGED exceptApi

\* The rest of the call once fetch() settles.
ApiSettle(resp) ==
  /\ pending # None
  /\ pending' = None
  /\ settled' = Some([method |-> Get(pending).method,
                      endpoint |-> Get(pending).endpoint,
                      response |-> resp,
                      outcome |-> ClientOutcome(Get(pending).method,
                                                Get(pending).endpoint, resp)])
  /\ UNCHANGED <<platform, authStore, storage, navigator>>
  /\ UNCHANGED exceptApi

(***************************************************************************)
(* Fine totals (useDashboardData.fetchData and the dashboard screen).      *)
(***************************************************************************)
\* A fine amount as the server may send it: a finite number (in cents), NaN,
\* Infinity, a string, null or undefined.
Num(n) == [t |-> "number", v |-> n]
NotNum(t) == [t |-> t, v |-> 0]
Undefined == NotNum("undefined")

\* a ?? b
Nullish(a) == a.t \in {"undefined", "null"}
Coalesce(a, b) == IF Nullish(a) THEN b ELSE a

FineOfBorrowOr(borrow) ==
  LET a == borrow.fine
      b == IF IsSome(borrow.book) THEN Get(borrow.book).fineAmount ELSE Undefined
  IN IF a.t = "number" /\ a.v # 0 THEN a
     ELSE IF b.t = "number" /\ b.v # 0 THEN b ELSE Num(0)

\* (borrow as any)?.fine ?? borrow.book?.fineAmount ?? 0
FineOfBorrow(borrow) ==
  Coalesce(Coalesce(borrow.fine,
                    IF IsSome(borrow.book) THEN Get(borrow.book).fineAmount
                    ELSE Undefined),
           Num(0))

\* Number.isFinite(fine) ? fine : 0
FiniteOrZero(fine) == IF fine.t = "number" THEN fine.v ELSE 0

\* overdueBorrows.reduce((sum, borrow) => sum + ..., 0), left to right.
RECURSIVE ReduceFines(_, _)
ReduceFines(sum, borrows) ==
  IF borrows = <<>> THEN sum
  ELSE ReduceFines(sum + FiniteOrZero(FineOfBorrow(Head(borrows))), Tail(borrows))

TotalFines(overdueBorrows) == ReduceFines(0, overdueBorrows)

\* Array.isArray(raw) ? raw : []
AsArray(raw) == IF raw.isArray THEN raw.items ELSE <<>>

(***************************************************************************)
(* useDashboardData: the hook's state and its asynchronous calls.          *)
(***************************************************************************)
MaxCalls == 3
MaxPending == 2

\* Server data. The student has one overdue borrow with a fine until it is paid.
OverdueBorrow ==
  [id |-> "b1", fine |-> Num(500),
   book |-> Some([title |-> "Dune", fineAmount |-> Undefined])]
CurrentBorrow ==
  [id |-> "b2", fine |-> Undefined,
   book |-> Some([title |-> "Emma", fineAmount |-> Undefined])]
ServerOverdue(paid) == IF paid THEN <<>> ELSE <<OverdueBorrow>>
ServerCurrent == <<CurrentBorrow>>
ServerProfiles == {[fullName |-> "Ada", studentId |-> "S1", major |-> "CS"]}

\* The failure a request of the hook ends with: no response from the network.
DashFailure ==
  CHOOSE resp \in Responses : resp.kind = "network" /\ resp.message = "Failed to fetch"
FailureMessage(method, endpoint) ==
  HandleApiError(Get(ClientOutcome(method, endpoint, DashFailure).error)).message

InitialDashboardState ==
  [data |-> None, isLoading |-> TRUE, isRefreshing |-> FALSE, isPaying |-> FALSE,
   error |-> None, payError |-> None]

\* The StudentDashboardData fetchData builds from the three responses; profile
\* is None when authService.getProfile() failed (.catch(() => null)).
BuildData(profile, currentBorrowsRaw, overdueBorrowsRaw) ==
  LET currentBorrows == AsArray(currentBorrowsRaw)
      overdueBorrows == AsArray(overdueBorrowsRaw)
  IN [studentName |-> IF IsSome(profile) THEN Get(profile).fullName ELSE "Student",
      studentId |-> IF IsSome(profile) THEN Get(profile).studentId ELSE "N/A",
      major |-> IF IsSome(profile) THEN Get(profile).major ELSE "Major not set",
      totalBorrows |-> Len(currentBorrows),
      activeBorrows |-> Len(currentBorrows),
      totalFines |-> TotalFines(overdueBorrows),
      overdueBooks |-> overdueBorrows,
      currentBorrows |-> currentBorrows]

ArrayOf(items) == [isArray |-> TRUE, items |-> items]

\* A call of fetchData in flight: its place in the order fetchData calls started
\* (0 before it starts), its two borrow requests, each "pending" or "ok";
\* overduePaid is the server's finePaid when it answered the overdue one.
FetchRequests ==
  [fetchNo |-> 0, current |-> "pending", overdue |-> "pending", overduePaid |-> FALSE]
Task(id, kind, pc) == [id |-> id, kind |-> kind, pc |-> pc] @@ FetchRequests

CanStart == calls < MaxCalls /\ Cardinality(tasks) < MaxPending

\* setState of the hook: React drops the update of a component that has
\* unmounted.
SetStateAlways(next) == next

SetState(next) == IF dashMounted THEN next ELSE state

\* fetchData's first statement, had it also raised isLoading.
ClearErrorSetLoading(st) == [st EXCEPT !.error = None, !.isLoading = TRUE]

\* fetchData's first statement.
ClearError(st) == [st EXCEPT !.error = None]

\* refetch(): fetchData called directly.
Refetch ==
  /\ dashMounted
  /\ CanStart
  /\ state' = SetState(ClearError(state))
  /\ tasks' = tasks \cup
       {[Task(calls + 1, "fetch", "fetching") EXCEPT !.fetchNo = fetchStarts + 1]}
  /\ calls' = calls + 1
  /\ fetchStarts' = fetchStarts + 1
  /\ UNCHANGED <<dataFrom, finePaid, lastReturn>>
  /\ UNCHANGED exceptDash

\* refresh() up to its await fetchData().
Refresh ==
  /\ dashMounted
  /\ CanStart
  /\ state' = SetState(ClearError([state EXCEPT !.isRefreshing = TRUE, !.error = None]))
  /\ tasks' = tasks \cup
       {[Task(calls + 1, "refresh", "fetching") EXCEPT !.fetchNo = fetchStarts + 1]}
  /\ calls' = calls + 1
  /\ fetchStarts' = fetchStarts + 1
  /\ UNCHANGED <<dataFrom, finePaid, lastReturn>>
  /\ UNCHANGED exceptDash

\* payFine() up to its await borrowService.payFine().
PayFine ==
  /\ dashMounted
  /\ CanStart
  /\ state' = SetState([state EXCEPT !.isPaying = TRUE, !.payError = None])
  /\ tasks' = tasks \cup {Task(calls + 1, "pay", "paying")}
  /\ calls' = calls + 1
  /\ UNCHANGED <<fetchStarts, dataFrom, finePaid, lastReturn>>
  /\ UNCHANGED exceptDash

\* What runs after fetchData returns, by caller: refresh clears isRefreshing;
\* payFine returns {success: true} and its finally clears isPaying.
AfterFetch(t, st) ==
  CASE t.kind = "refresh" -> [st EXCEPT !.isRefreshing = FALSE]
    [] t.kind = "pay" -> [st EXCEPT !.isPaying = FALSE]
    [] OTHER -> st

ReturnAfterFetch(t) ==
  IF t.kind = "pay"
    THEN Some([call |-> t.id, success |-> TRUE, message |-> None])
    ELSE lastReturn

\* fetchData's catch block, had it also dropped the data on display.
FetchFailedClearsData(t, endpoint) ==
  /\ state' = SetState(AfterFetch(t, [state EXCEPT !.isLoading = FALSE, !.data = None,
                                          !.error = Some(FailureMessage("GET", endpoint))]))
  /\ tasks' = tasks \ {t}
  /\ lastReturn' = ReturnAfterFetch(t)
  /\ UNCHANGED <<calls, fetchStarts, dataFrom, finePaid>>

\* fetchData's catch block: a borrow request failed, Promise.all rejects at once.
FetchFailed(t, endpoint) ==
  /\ state' = SetState(AfterFetch(t, [state EXCEPT !.isLoading = FALSE,
                                          !.error = Some(FailureMessage("GET", endpoint))]))
  /\ tasks' = tasks \ {t}
  /\ lastReturn' = ReturnAfterFetch(t)
  /\ UNCHANGED <<calls, fetchStarts, dataFrom, finePaid>>

\* GET /api/borrow/current is answered.
AnswerCurrent(t, ok) ==
  /\ t \in tasks /\ t.pc = "fetching" /\ t.current = "pending"
  /\ IF ok
       THEN /\ tasks' = (tasks \ {t}) \cup {[t EXCEPT !.current = "ok"]}
            /\ UNCHANGED <<state, calls, fetchStarts, dataFrom, finePaid, lastReturn>>
       ELSE FetchFailed(t, "/api/borrow/current")
  /\ UNCHANGED exceptDash

\* GET /api/borrow/overdue is answered, from the server's state at that time.
AnswerOverdue(t, ok) ==
  /\ t \in tasks /\ t.pc = "fetching" /\ t.overdue = "pending"
  /\ IF ok
       THEN /\ tasks' = (tasks \ {t}) \cup
                          {[t EXCEPT !.overdue = "ok", !.overduePaid = finePaid]}
            /\ UNCHANGED <<state, calls, fetchStarts, dataFrom, finePaid, lastReturn>>
       ELSE FetchFailed(t, "/api/borrow/overdue")
  /\ UNCHANGED exceptDash

\* fetchData's success path, had its setState left error as it was.
FetchSucceededKeepsError(t, profile) ==
  /\ t \in tasks /\ t.pc = "fetching" /\ t.current = "ok" /\ t.overdue = "ok"
  /\ state' = SetState(AfterFetch(t,
       [state EXCEPT !.data = Some(BuildData(profile, ArrayOf(ServerCurrent),
                                             ArrayOf(ServerOverdue(t.overduePaid)))),
                     !.isLoading = FALSE]))
  /\ tasks' = tasks \ {t}
  /\ dataFrom' = IF dashMounted THEN t.fetchNo ELSE dataFrom
  /\ lastReturn' = ReturnAfterFetch(t)
  /\ UNCHANGED <<calls, fetchStarts, finePaid>>
  /\ UNCHANGED exceptDash

\* Promise.all resolves: both borrow requests are answered and the profile
\* request has settled (with a profile, or with null when it failed).
FetchSucceeded(t, profile) ==
  /\ t \in tasks /\ t.pc = "fetching" /\ t.current = "ok" /\ t.overdue = "ok"
  /\ state' = SetState(AfterFetch(t,
       [state EXCEPT !.data = Some(BuildData(profile, ArrayOf(ServerCurrent),
                                             ArrayOf(ServerOverdue(t.overduePaid)))),
                     !.isLoading = FALSE, !.error = None]))
  /\ tasks' = tasks \ {t}
  /\ dataFrom' = IF dashMounted THEN t.fetchNo ELSE dataFrom
  /\ lastReturn' = ReturnAfterFetch(t)
  /\ UNCHANGED <<calls, fetchStarts, finePaid>>
  /\ UNCHANGED exceptDash

\* POST /api/borrow/pay-fine settles: "ok" (paid, answered), "rejected" (not
\* paid) or "lost" (paid, but the response never arrives).
PayAnswer(t, outcome) ==
  /\ t \in tasks /\ t.pc = "paying"
  /\ finePaid' = (finePaid \/ outcome \in {"ok", "lost"})
  /\ IF outcome = "ok"
       THEN /\ state' = SetState(ClearError(state))
            /\ tasks' = (tasks \ {t}) \cup
                 {[t EXCEPT !.pc = "fetching", !.fetchNo = fetchStarts + 1]}
            /\ fetchStarts' = fetchStarts + 1
            /\ UNCHANGED <<calls, dataFrom, lastReturn>>
       ELSE /\ state' = SetState([state EXCEPT
                           !.payError = Some(FailureMessage("POST", "/api/borrow/pay-fine")),
                           !.isPaying = FALSE])
            /\ tasks' = tasks \ {t}
            /\ lastReturn' = Some([call |-> t.id, success |-> FALSE,
                                   message |-> Some(FailureMessage("POST", "/api/borrow/pay-fine"))])
            /\ UNCHANGED <<calls, fetchStarts, dataFrom>>
  /\ UNCHANGED exceptDash

\* The screen that uses the hook unmounts; calls in flight go on.
Unmount ==
  /\ dashMounted
  /\ dashMounted' = FALSE
  /\ UNCHANGED dashVars
  /\ UNCHANGED exceptMount

DashMounted == dashMounted = TRUE

\* The hook once its mount effect has called fetchData().
InitDash ==
  /\ state = ClearError(InitialDashboardState)
  /\ tasks = {[Task(1, "fetch", "fetching") EXCEPT !.fetchNo = 1]}
  /\ calls = 1
  /\ fetchStarts = 1
  /\ dataFrom = 0
  /\ finePaid = FALSE
  /\ lastReturn = None

NextDash ==
  \/ Unmount
  \/ Refetch
  \/ Refresh
  \/ PayFine
  \/ \E t \in tasks, ok \in BOOLEAN : AnswerCurrent(t, ok)
  \/ \E t \in tasks, ok \in BOOLEAN : AnswerOverdue(t, ok)
  \/ \E t \in tasks, profile \in Opt(ServerProfiles) : FetchSucceeded(t, profile)
  \/ \E t \in tasks, outcome \in {"ok", "rejected", "lost"} : PayAnswer(t, outcome)

(***************************************************************************)
(* Fine totals as a computation on its own.                                *)
(***************************************************************************)
MaxBorrows == 2

FineValues ==
  {Undefined, NotNum("null"), NotNum("NaN"), NotNum("Infinity"), NotNum("string"),
   Num(0), Num(250)}
BookFineValues == {Undefined, NotNum("NaN"), Num(0), Num(125)}
Books == Opt({[title |-> "Dune", fineAmount |-> a] : a \in BookFineValues})
Borrows == {[id |-> "b1", fine |-> f, book |-> b] : f \in FineValues, b \in Books}
BorrowLists == UNION {[1..n -> Borrows] : n \in 0..MaxBorrows}

\* const totalFines = overdueBorrows.reduce(...) on the response received.
ComputeTotalFines ==
  /\ fineTotal = None
  /\ fineTotal' = Some(TotalFines(AsArray(fineInput)))
  /\ UNCHANGED fineInput
  /\ UNCHANGED exceptFines

IdleFines == fineInput = ArrayOf(<<>>) /\ fineTotal = None

InitFineInputs ==
  /\ fineInput \in {ArrayOf(l) : l \in BorrowLists} \cup {[isArray |-> FALSE, items |-> <<>>]}
  /\ fineTotal = None

(***************************************************************************)
(* Days left (web calculateDaysLeft, mobile getDaysLeft / getDaysOverdue). *)
(***************************************************************************)
\* Instants are whole hours since the epoch; the window has MaxDay days.
MaxDay == 3
HoursPerDay == 24
Instants == 0..(MaxDay * HoursPerDay - 1)

\* The DST change of the zones that have one, at 02:00 local time of day 1.
SpringForward == HoursPerDay + 2
FallBack == HoursPerDay + 1
Zones == {"fixed", "spring", "autumn"}

\* Date.prototype.getTimezoneOffset, as hours ahead of the epoch clock.
Offset(t) ==
  CASE zone = "spring" -> IF t >= SpringForward THEN 1 ELSE 0
    [] zone = "autumn" -> IF t >= FallBack THEN 0 ELSE 1
    [] OTHER -> 0

\* The local calendar day an instant falls on.
LocalDay(t) == (t + Offset(t)) \div HoursPerDay

\* date.setHours(0, 0, 0, 0): the instant of local midnight of the same day.
SetHoursMidnight(t) ==
  LET d == LocalDay(t)
  IN CHOOSE m \in (d * HoursPerDay - 1)..(d * HoursPerDay) :
       m + Offset(m) = d * HoursPerDay

\* Math.ceil(a / b) and Math.round(a / b), b > 0.
Ceil(a, b) == -((-a) \div b)
Round(a, b) == (2 * a + b) \div (2 * b)
Max(a, b) == IF a >= b THEN a ELSE b

\* calculateDaysLeft (web StudentDashboard).
CalculateDaysLeft(dueDate, now) ==
  LET today == SetHoursMidnight(now)
      due == SetHoursMidnight(dueDate)
      diffTime == due - today
  IN Ceil(diffTime, HoursPerDay)

\* date-fns differenceInCalendarDays: the start of each day, shifted by its
\* own time zone offset, then rounded.
DifferenceInCalendarDays(dateLeft, dateRight) ==
  LET startOfDayLeft == SetHoursMidnight(dateLeft)
      startOfDayRight == SetHoursMidnight(dateRight)
      timestampLeft == startOfDayLeft + Offset(startOfDayLeft)
      timestampRight == startOfDayRight + Offset(startOfDayRight)
  IN Round(timestampLeft - timestampRight, HoursPerDay)

\* parseDate: a missing or invalid value becomes new Date().
ParseDate(value, now) == IF IsSome(value) THEN Get(value) ELSE now

GetDaysLeft(dueDate, now) ==
  Max(0, DifferenceInCalendarDays(ParseDate(dueDate, now), now))

GetDaysOverdueSwapped(dueDate, now) ==
  Max(0, DifferenceInCalendarDays(ParseDate(dueDate, now), now))

GetDaysOverdue(dueDate, now) ==
  Max(0, DifferenceInCalendarDays(now, ParseDate(dueDate, now)))

\* The web dashboard renders a borrow: calculateDaysLeft(borrow.dueDate).
WebRender ==
  /\ webDaysLeft = None
  /\ IsSome(dueInstant)
  /\ webDaysLeft' = Some(CalculateDaysLeft(Get(dueInstant), nowInstant))
  /\ UNCHANGED <<zone, nowInstant, dueInstant, mobileDays>>
  /\ UNCHANGED exceptDays

\* The mobile dashboard renders a borrow: getDaysLeft and getDaysOverdue.
MobileRender ==
  /\ mobileDays = None
  /\ mobileDays' = Some([left |-> GetDaysLeft(dueInstant, nowInstant),
                         overdue |-> GetDaysOverdue(dueInstant, nowInstant)])
  /\ UNCHANGED <<zone, nowInstant, dueInstant, webDaysLeft>>
  /\ UNCHANGED exceptDays

IdleDays ==
  /\ zone = "fixed"
  /\ nowInstant = 0
  /\ dueInstant = None
  /\ webDaysLeft = None
  /\ mobileDays = None

InitDayInputs ==
  /\ zone \in Zones
  /\ nowInstant \in Instants
  /\ dueInstant \in Opt(Instants)
  /\ webDaysLeft = None
  /\ mobileDays = None

(***************************************************************************)
(* BookDetailView: the book query and the borrow mutation.                 *)
(***************************************************************************)
MaxBorrowClicks == 2

Availabilities == {"Available", "Checked Out", "On Hold"}
Barcodes == {"", "LIB-00124"}

\* (value || "").toLowerCase().includes("available") / includes("checked").
IncludesAvailable(a) == a = "Available"
IncludesChecked(a) == a = "Checked Out"

\* enabled: !forceLoading && Boolean(barcode) && !initialBookData
BookQueryEnabled(props) ==
  /\ ~props.forceLoading
  /\ props.barcode # ""
  /\ ~IsSome(props.initialBookData)

\* useQuery at mount: initialData fills the cache; an enabled query fetches.
MountBookQuery(props) ==
  [data |-> props.initialBookData,
   error |-> FALSE,
   fetching |-> BookQueryEnabled(props),
   isInvalidated |-> FALSE]

\* availabilityStyles.label
AvailabilityLabel(availability) ==
  LET status == IF IsSome(availability) THEN Get(availability) ELSE "Available"
  IN IF IncludesAvailable(status) THEN "Available"
     ELSE IF IncludesChecked(status) THEN "Checked Out"
     ELSE "On Hold"

\* bookQuery.isLoading: fetching with nothing to show yet.
BookIsLoading == bookQuery.fetching /\ ~IsSome(bookQuery.data) /\ ~bookQuery.error

\* What <main> shows: the skeleton, the not-found state, or the book with
\* its availability label.
BookShown ==
  IF bookProps.forceLoading \/ BookIsLoading THEN "skeleton"
  ELSE IF bookQuery.error \/ ~IsSome(bookQuery.data) THEN "Book not found"
  ELSE AvailabilityLabel(bookQuery.data)

\* isAvailable: whether the Borrow Book bar is rendered.
IsAvailable ==
  IsSome(bookQuery.data) /\ IncludesAvailable(Get(bookQuery.data))

\* The GET /books/barcode/:barcode of the query settles.
BookFetchAnswer(ok) ==
  /\ bookQuery.fetching
  /\ bookQuery' =
       IF ok
         THEN [data |-> Some(bookServer), error |-> FALSE, fetching |-> FALSE,
               isInvalidated |-> FALSE]
         ELSE [bookQuery EXCEPT !.error = TRUE, !.fetching = FALSE]
  /\ UNCHANGED <<bookProps, bookServer, borrowMutation, borrowClicks>>
  /\ UNCHANGED exceptBook

\* onClick of Borrow Book: borrowMutation.mutate(durationDays).
ClickBorrow ==
  /\ IsAvailable
  /\ borrowMutation # "pending"
  /\ borrowClicks < MaxBorrowClicks
  /\ borrowMutation' = "pending"
  /\ borrowClicks' = borrowClicks + 1
  /\ UNCHANGED <<bookProps, bookServer, bookQuery>>
  /\ UNCHANGED exceptBook

\* queryClient.invalidateQueries({ queryKey: ["book-detail", barcode] }):
\* the query is marked invalidated and, when an enabled observer is mounted,
\* fetched again; a query whose only observer is disabled is not fetched.
InvalidateBookQuery(q) ==
  [q EXCEPT !.isInvalidated = TRUE,
            !.fetching = q.fetching \/ BookQueryEnabled(bookProps)]

\* onSuccess without the invalidation.
BorrowOnSuccessNoInvalidate(q) == q

\* onSuccess of the borrow mutation.
BorrowOnSuccess(q) == InvalidateBookQuery(q)

\* mutationFn settles: onBorrowOverride or POST /borrow/borrow resolved (the
\* borrow is recorded by the server) or rejected.
BorrowAnswer(ok) ==
  /\ borrowMutation = "pending"
  /\ IF ok
       THEN /\ bookServer' = "Checked Out"
            /\ borrowMutation' = "success"
            /\ bookQuery' = BorrowOnSuccess(bookQuery)
       ELSE /\ borrowMutation' = "error"
            /\ UNCHANGED <<bookServer, bookQuery>>
  /\ UNCHANGED <<bookProps, borrowClicks>>
  /\ UNCHANGED exceptBook

\* Which of the four presentations <main> shows.
BookPresentation ==
  IF BookShown = "skeleton" THEN "loading"
  ELSE IF BookShown = "Book not found"
    THEN IF bookQuery.error THEN "error" ELSE "empty"
  ELSE "content"

\* The handlers the view offers the user that act on the query or the
\* mutation. The action of the not-found state, "Go back", calls the
\* parent's onBack and touches neither.
BookUserAction == ClickBorrow

BookPropsSet ==
  [barcode : Barcodes, initialBookData : Opt(Availabilities),
   forceLoading : BOOLEAN, onBorrowOverride : BOOLEAN]

IdleBook ==
  /\ bookProps = [barcode |-> "", initialBookData |-> None,
                  forceLoading |-> TRUE, onBorrowOverride |-> FALSE]
  /\ bookServer = "Available"
  /\ bookQuery = MountBookQuery(bookProps)
  /\ borrowMutation = "idle"
  /\ borrowClicks = 0

InitBookView ==
  /\ bookProps \in BookPropsSet
  /\ bookServer \in Availabilities
  /\ bookQuery = MountBookQuery(bookProps)
  /\ borrowMutation = "idle"
  /\ borrowClicks = 0

(***************************************************************************)
(* Availability strings and the string operations applied to them.         *)
(***************************************************************************)
MaxFragments == 2
Fragments ==
  {"Available", "AVAILABLE", "available", "Un", "Checked", "checked", " Out",
   "On Hold", "Reserved"}
StatusStrings == UNION {[1..n -> Fragments] : n \in 0..MaxFragments}

\* String.prototype.toLowerCase, fragment by fragment.
LowerFragment(f) ==
  CASE f \in {"Available", "AVAILABLE", "available"} -> "available"
    [] f \in {"Checked", "checked"} -> "checked"
    [] f = "Un" -> "un"
    [] f = " Out" -> " out"
    [] f = "On Hold" -> "on hold"
    [] f = "Reserved" -> "reserved"
ToLowerCase(str) == [i \in 1..Len(str) |-> LowerFragment(str[i])]

\* String.prototype.includes for a needle that is one fragment.
Includes(str, needle) == \E i \in 1..Len(str) : str[i] = needle

\* value || fallback for a string: the empty string is falsy.
OrString(str, fallback) == IF str = <<>> THEN fallback ELSE str

(***************************************************************************)
(* BookBrowsingPage: the paginated listing of one query key.               *)
(***************************************************************************)
MaxPages == 3
MaxRequests == 5

\* The page the server returns for a page parameter.
ServerPage(pageParam) ==
  [page |-> pageParam,
   items |-> catalogue[pageParam],
   nextPage |-> IF pageParam < MaxPages THEN Some(pageParam + 1) ELSE None]

\* The filter value "all" of the availability radio group.
AllFilter == <<"all">>

\* fetchBooks: the response with its items filtered by availabilityFilter,
\* (book.availability || "").toLowerCase() === availabilityFilter.toLowerCase().
FetchBooks(pageParam) ==
  LET response == ServerPage(pageParam)
      Matches(availability) ==
        ToLowerCase(OrString(availability, <<>>)) = ToLowerCase(availabilityFilter)
  IN [response EXCEPT !.items =
        IF availabilityFilter = AllFilter THEN @ ELSE SelectSeq(@, Matches)]

\* The list section of the page: skeletons, the error state, the "No books
\* found" state (showEmpty) or the cards followed by the load-more sentinel.
BrowsePresentation ==
  LET isFetching == IsSome(booksQuery.fetching)
      isLoading == browseProps.forceLoading \/ (booksQuery.pages = <<>> /\ isFetching)
      noBooks == \A i \in 1..Len(booksQuery.pages) : booksQuery.pages[i].items = <<>>
      showEmpty == ~browseProps.forceLoading /\ ~isLoading /\ ~isFetching /\ noBooks
  IN IF isLoading THEN "skeleton"
     ELSE IF booksQuery.error THEN "error"
     ELSE IF showEmpty THEN "empty"
     ELSE "list"

\* getNextPageParam: lastPage.nextPage ?? null
GetNextPageParam(pages) == pages[Len(pages)].nextPage

\* booksQuery.hasNextPage
HasNextPage == booksQuery.pages # <<>> /\ IsSome(GetNextPageParam(booksQuery.pages))

\* apiClient.get(endpoint) inside fetchBooks: one more request on the wire.
IssueRequest(pageParam) == Append(network, [pageParam |-> pageParam, settled |-> FALSE])

\* useInfiniteQuery at mount: initialData becomes the first page; an enabled
\* query fetches page 1 (with initialData, as the refetch of stale data).
MountBooksQuery(props) ==
  [pages |-> IF IsSome(props.initialData) THEN <<Get(props.initialData)>> ELSE <<>>,
   fetching |-> IF props.forceLoading THEN None
                ELSE Some([request |-> 1, direction |-> "first"]),
   error |-> FALSE]

\* The sentinel is in the document: the list is rendered, and the effect
\* attached an observer because hasNextPage was true.
SentinelObserved ==
  /\ ~browseProps.forceLoading
  /\ booksQuery.pages # <<>>
  /\ BrowsePresentation = "list"
  /\ HasNextPage

\* The IntersectionObserver callback with isIntersecting: fetchNextPage().
\* A fetch in flight is cancelled silently (cancelRefetch defaults to true)
\* and the next page of the pages held is requested.
SentinelIntersects ==
  /\ SentinelObserved
  /\ Len(network) < MaxRequests
  /\ network' = IssueRequest(Get(GetNextPageParam(booksQuery.pages)))
  /\ booksQuery' = [booksQuery EXCEPT
       !.fetching = Some([request |-> Len(network) + 1, direction |-> "forward"])]
  /\ UNCHANGED <<browseProps, availabilityFilter, catalogue>>
  /\ UNCHANGED exceptBrowse

\* A request settles. The fetch that awaits it applies the page (appended
\* for fetchNextPage, replacing page 1 for the first fetch) or records the
\* error; a request whose fetch was cancelled settles unnoticed.
RequestSettles(r, ok) ==
  /\ r \in 1..Len(network)
  /\ ~network[r].settled
  /\ network' = [network EXCEPT ![r].settled = TRUE]
  /\ booksQuery' =
       IF booksQuery.fetching # Some([request |-> r, direction |-> "first"])
          /\ booksQuery.fetching # Some([request |-> r, direction |-> "forward"])
         THEN booksQuery
       ELSE IF ~ok
         THEN [booksQuery EXCEPT !.fetching = None, !.error = TRUE]
       ELSE IF Get(booksQuery.fetching).direction = "forward"
         THEN [pages |-> Append(booksQuery.pages, FetchBooks(network[r].pageParam)),
               fetching |-> None, error |-> FALSE]
       ELSE [pages |-> <<FetchBooks(network[r].pageParam)>>,
             fetching |-> None, error |-> FALSE]
  /\ UNCHANGED <<browseProps, availabilityFilter, catalogue>>
  /\ UNCHANGED exceptBrowse

\* The listings of the server: every page holds one book, available or not.
Catalogues == [1..MaxPages -> {<<<<"Available">>>>, <<<<"Checked", " Out">>>>}]

BrowsePropsSet ==
  [initialData : Opt({[page |-> 1, items |-> <<<<"Available">>>>, nextPage |-> Some(2)]}),
   forceLoading : BOOLEAN]

IdleBrowse ==
  /\ browseProps = [initialData |-> None, forceLoading |-> TRUE]
  /\ availabilityFilter = AllFilter
  /\ catalogue = [p \in 1..MaxPages |-> <<<<"Available">>>>]
  /\ booksQuery = MountBooksQuery(browseProps)
  /\ network = <<>>

InitBrowsePage ==
  /\ browseProps \in BrowsePropsSet
  /\ availabilityFilter \in {AllFilter, <<"Available">>, <<"Checked", " Out">>}
  /\ catalogue \in Catalogues
  /\ booksQuery = MountBooksQuery(browseProps)
  /\ network = IF browseProps.forceLoading THEN <<>>
               ELSE <<[pageParam |-> 1, settled |-> FALSE]>>

(***************************************************************************)
(* Availability classification (BookDetailView, BookBrowsingPage).         *)
(***************************************************************************)
\* A status string is a sequence of fragments; the fragments are chosen so
\* that "available" and "checked" occur in a string only as whole
\* fragments, in any letter case.
\* availabilityStyles (BookDetailView): the style and the label shown.
AvailabilityStyles(availability) ==
  LET status == ToLowerCase(OrString(availability, <<"Available">>))
  IN IF Includes(status, "available")
       THEN [kind |-> "available", label |-> <<"Available">>]
     ELSE IF Includes(status, "checked")
       THEN [kind |-> "checked-out", label |-> <<"Checked", " Out">>]
     ELSE [kind |-> "on-hold", label |-> <<"On Hold">>]

\* isAvailable (BookDetailView): whether the Borrow Book bar is rendered,
\* (book?.availability || "").toLowerCase().includes("available").
BorrowBarShown(availability) ==
  Includes(ToLowerCase(OrString(availability, <<>>)), "available")

\* badgeClassByAvailability (BookBrowsingPage): the style of the badge.
BadgeClassByAvailability(availability) ==
  LET status == ToLowerCase(OrString(availability, <<>>))
  IN IF Includes(status, "available") THEN "available"
     ELSE IF Includes(status, "checked") THEN "checked-out"
     ELSE "on-hold"

\* The badge of a book card: the class above, the label book.availability.
CardBadge(availability) ==
  [kind |-> BadgeClassByAvailability(availability), label |-> availability]

\* BookDetailView renders the badge of the book.
RenderDetailBadge ==
  /\ detailBadge = None
  /\ detailBadge' = Some(AvailabilityStyles(statusRaw))
  /\ UNCHANGED <<statusRaw, cardBadge>>
  /\ UNCHANGED exceptAvail

\* BookBrowsingPage renders the card of the book.
RenderCardBadge ==
  /\ cardBadge = None
  /\ cardBadge' = Some(CardBadge(statusRaw))
  /\ UNCHANGED <<statusRaw, detailBadge>>
  /\ UNCHANGED exceptAvail

IdleAvail == statusRaw = <<>> /\ detailBadge = None /\ cardBadge = None

InitAvailInputs ==
  /\ statusRaw \in StatusStrings
  /\ detailBadge = None
  /\ cardBadge = None

(***************************************************************************)
(* Greetings (web and mobile StudentDashboard).                            *)
(***************************************************************************)
Hours == 0..(HoursPerDay - 1)

\* The body of the greeting memo of the web dashboard.
Greeting(hour) ==
  IF hour < 12 THEN "Good Morning"
  ELSE IF hour < 17 THEN "Good Afternoon"
  ELSE "Good Evening"

\* The greeting text of the mobile dashboard: a literal.
MobileGreeting(hour) == "Good Morning"

\* The web dashboard mounts: useMemo(..., []) computes the greeting.
WebMount ==
  /\ webGreeting = None
  /\ webGreeting' = Some(Greeting(clockHour))
  /\ webShown' = Some([hour |-> clockHour, text |-> Greeting(clockHour)])
  /\ UNCHANGED <<clockHour, mobileShown>>
  /\ UNCHANGED exceptGreet

\* The web dashboard renders again: the memo has no dependencies, so the
\* greeting computed at mount is shown.
WebRerender ==
  /\ IsSome(webGreeting)
  /\ webShown' = Some([hour |-> clockHour, text |-> Get(webGreeting)])
  /\ UNCHANGED <<clockHour, webGreeting, mobileShown>>
  /\ UNCHANGED exceptGreet

\* The mobile dashboard renders its header.
MobileHeaderRender ==
  /\ mobileShown' = Some([hour |-> clockHour, text |-> MobileGreeting(clockHour)])
  /\ UNCHANGED <<clockHour, webGreeting, webShown>>
  /\ UNCHANGED exceptGreet

\* An hour passes.
HourPasses ==
  /\ clockHour' = (clockHour + 1) % HoursPerDay
  /\ UNCHANGED <<webGreeting, webShown, mobileShown>>
  /\ UNCHANGED exceptGreet

IdleGreet ==
  /\ clockHour = 0
  /\ webGreeting = None
  /\ webShown = None
  /\ mobileShown = None

InitGreetInputs ==
  /\ clockHour \in Hours
  /\ webGreeting = None
  /\ webShown = None
  /\ mobileShown = None

(***************************************************************************)
(* UserProfilePage: the change-password panel.                             *)
(***************************************************************************)
MaxPasswordCalls == 1

PasswordValues == {"", "hunter2", "hunter3"}
PasswordFields == {"currentPassword", "newPassword", "confirmPassword"}
EmptyPasswordForm ==
  [currentPassword |-> "", newPassword |-> "", confirmPassword |-> ""]

\* passwordError: both fields non-empty (truthy) and different.
PasswordError(form) ==
  IF form.newPassword # "" /\ form.confirmPassword # ""
     /\ form.newPassword # form.confirmPassword
    THEN Some("Passwords do not match")
    ELSE None

\* What the panel's button renders for a mutation status and a form.
PasswordButton(status, form) ==
  [disabled |-> IsSome(PasswordError(form)) \/ status = "pending",
   label |-> IF status = "pending" THEN "Updating..." ELSE "Update Password",
   alert |-> PasswordError(form)]

\* The panel header is pressed.
TogglePasswordPanel ==
  /\ showPasswordPanel' = ~showPasswordPanel
  /\ UNCHANGED <<passwordProps, passwordForm, passwordMutation, passwordCalls>>
  /\ UNCHANGED exceptPassword

\* onChange of one of the three inputs.
TypePassword(field, value) ==
  /\ showPasswordPanel
  /\ passwordForm' = [passwordForm EXCEPT ![field] = value]
  /\ UNCHANGED <<passwordProps, showPasswordPanel, passwordMutation, passwordCalls>>
  /\ UNCHANGED exceptPassword

\* onClick of Update Password: passwordMutation.mutate(passwordForm), which
\* calls onPasswordChangeOverride or POST /auth/password/change.
ClickUpdatePassword ==
  /\ showPasswordPanel
  /\ ~PasswordButton(passwordMutation, passwordForm).disabled
  /\ Len(passwordCalls) < MaxPasswordCalls
  /\ passwordMutation' = "pending"
  /\ passwordCalls' = Append(passwordCalls,
       [via |-> IF passwordProps.onPasswordChangeOverride THEN "override" ELSE "post",
        payload |-> passwordForm])
  /\ UNCHANGED <<passwordProps, showPasswordPanel, passwordForm>>
  /\ UNCHANGED exceptPassword

\* mutationFn settles; onSuccess clears the form and closes the panel.
PasswordAnswer(ok) ==
  /\ passwordMutation = "pending"
  /\ IF ok
       THEN /\ passwordMutation' = "success"
            /\ passwordForm' = EmptyPasswordForm
            /\ showPasswordPanel' = FALSE
       ELSE /\ passwordMutation' = "error"
            /\ UNCHANGED <<passwordForm, showPasswordPanel>>
  /\ UNCHANGED <<passwordProps, passwordCalls>>
  /\ UNCHANGED exceptPassword

IdlePassword ==
  /\ passwordProps = [onPasswordChangeOverride |-> FALSE]
  /\ showPasswordPanel = FALSE
  /\ passwordForm = EmptyPasswordForm
  /\ passwordMutation = "idle"
  /\ passwordCalls = <<>>

InitPasswordPanel ==
  /\ passwordProps \in [onPasswordChangeOverride : BOOLEAN]
  /\ showPasswordPanel = FALSE
  /\ passwordForm = EmptyPasswordForm
  /\ passwordMutation = "idle"
  /\ passwordCalls = <<>>

(***************************************************************************)
(* Resource services (borrowService, the functions behind the borrow hooks). *)
(***************************************************************************)
MaxQueryLen == 2

QueryChars == {" ", "a", "b"}
Queries == UNION {[1..n -> QueryChars] : n \in 0..MaxQueryLen}

\* String.prototype.trim
RECURSIVE TrimStart(_)
TrimStart(str) ==
  IF str # <<>> /\ Head(str) = " " THEN TrimStart(Tail(str)) ELSE str
RECURSIVE TrimEnd(_)
TrimEnd(str) ==
  IF str # <<>> /\ str[Len(str)] = " " THEN TrimEnd(SubSeq(str, 1, Len(str) - 1)) ELSE str
Trim(str) == TrimEnd(TrimStart(str))

\* encodeURIComponent
EncodeURIComponent(str) == [i \in 1..Len(str) |-> IF str[i] = " " THEN "%20" ELSE str[i]]

ServiceCalls ==
  {[fn |-> f, args |-> <<>>] :
     f \in {"borrowService.getCurrentBorrows", "borrowService.getOverdueBorrows",
            "fetchCurrentBorrows", "fetchOverdueStatus"}}
  \cup {[fn |-> "borrowService.payFine", args |-> <<id, amount>>] :
          id \in {"f1", ""}, amount \in {0, 250}}
  \cup {[fn |-> "searchBooks", args |-> <<q>>] : q \in Queries}
  \cup {[fn |-> "requestReturn", args |-> <<id>>] : id \in {"b1", ""}}

\* How an apiClient call can settle.
ClientOutcomes ==
  {[kind |-> "resolved", value |-> v] : v \in {"body", "null"}}
  \cup {[kind |-> "rejected", error |-> e] :
          e \in {"ApiClientError 404", "ApiClientError 500", "TypeError"}}

\* What a service function does with its arguments: the apiClient calls it
\* makes, and, when it makes none, the value it returns by itself.
ServiceRequests(call) ==
  CASE call.fn \in {"borrowService.getCurrentBorrows", "fetchCurrentBorrows"} ->
         <<[method |-> "GET", endpoint |-> <<"/api/borrow/current">>, body |-> <<>>]>>
    [] call.fn \in {"borrowService.getOverdueBorrows", "fetchOverdueStatus"} ->
         <<[method |-> "GET", endpoint |-> <<"/api/borrow/overdue">>, body |-> <<>>]>>
    [] call.fn = "borrowService.payFine" ->
         <<[method |-> "POST", endpoint |-> <<"/api/borrow/pay-fine">>,
            body |-> call.args]>>
    [] call.fn = "requestReturn" ->
         <<[method |-> "POST", endpoint |-> <<"/api/borrow/request-return">>,
            body |-> call.args]>>
    [] call.fn = "searchBooks" ->
         IF Trim(call.args[1]) = <<>>
           THEN <<>>
           ELSE <<[method |-> "GET",
                   endpoint |-> <<"/api/books/search?q=">> \o EncodeURIComponent(call.args[1]),
                   body |-> <<>>]>>

\* A service function is called.
CallService(call) ==
  /\ svcCall = None
  /\ svcCall' = Some(call)
  /\ svcHttp' = ServiceRequests(call)
  /\ svcResult' = IF ServiceRequests(call) = <<>>
                    THEN Some([kind |-> "resolved", value |-> "[]"])
                    ELSE None
  /\ UNCHANGED svcAnswer
  /\ UNCHANGED exceptSvc

\* return apiClient.get(...) / apiClient.post(...): the client's promise is
\* the function's result.
ServiceSettles(outcome) == outcome

\* The apiClient call settles and with it the service call.
ClientAnswers(outcome) ==
  /\ IsSome(svcCall) /\ svcHttp # <<>> /\ svcAnswer = None
  /\ svcAnswer' = Some(outcome)
  /\ svcResult' = Some(ServiceSettles(outcome))
  /\ UNCHANGED <<svcCall, svcHttp>>
  /\ UNCHANGED exceptSvc

IdleSvc ==
  /\ svcCall = None
  /\ svcHttp = <<>>
  /\ svcAnswer = None
  /\ svcResult = None


(***************************************************************************)
(* UserProfilePage: loading the profile.                                   *)
(***************************************************************************)
MaxProfileFetches == 3

UserProfiles == {[fullName |-> "Ada"], [fullName |-> "Bea"], [fullName |-> "Cy"]}

\* useQuery at mount: enabled: !forceLoading && !initialProfile, with
\* initialData: initialProfile.
MountProfileQuery(props) ==
  [status |-> IF IsSome(props.initialProfile) THEN "success" ELSE "pending",
   fetching |-> ~props.forceLoading /\ props.initialProfile = None,
   data |-> props.initialProfile,
   error |-> None]

\* The three returns of the component: skeleton, "Profile unavailable", page.
ProfilePresentation ==
  LET isLoading == profileQuery.fetching /\ profileQuery.status = "pending" IN
  IF (isLoading \/ profileProps.forceLoading) /\ profileForm = None
    THEN "skeleton"
    ELSE IF IsSome(profileQuery.error) \/ profileForm = None
      THEN "unavailable"
      ELSE "content"

\* GET /profile settles. The query takes the data or the error; the option
\* onSuccess: (data) => setProfileForm(data) runs only where the library
\* still calls query callbacks (they were removed in the major version that
\* gave mutations isPending, which this page reads).
ProfileFetchSettles(ok, data) ==
  /\ profileQuery.fetching
  /\ IF ok
       THEN /\ profileQuery' = [status |-> "success", fetching |-> FALSE,
                               data |-> Some(data), error |-> None]
            /\ profileForm' = IF queryCallbacks THEN Some(data) ELSE profileForm
       ELSE /\ profileQuery' = [profileQuery EXCEPT !.status = "error",
                               !.fetching = FALSE, !.error = Some("Network error")]
            /\ UNCHANGED profileForm
  /\ UNCHANGED <<profileProps, queryCallbacks, profileFetches>>
  /\ UNCHANGED exceptProfile

\* Retry of the "Profile unavailable" state: invalidateQueries(["profile"])
\* refetches the query when it is enabled.
ClickProfileRetry ==
  /\ ProfilePresentation = "unavailable"
  /\ profileFetches < MaxProfileFetches
  /\ ~profileProps.forceLoading /\ profileProps.initialProfile = None
  /\ profileQuery' = [profileQuery EXCEPT
       !.fetching = TRUE,
       !.status = IF profileQuery.data = None THEN "pending" ELSE @,
       !.error = IF profileQuery.data = None THEN None ELSE @]
  /\ profileFetches' = profileFetches + 1
  /\ UNCHANGED <<profileProps, profileForm, queryCallbacks>>
  /\ UNCHANGED exceptProfile

\* handleInputChange("fullName", value): setProfileForm(prev => prev ? {...} : prev).
HandleInputChange(value) ==
  /\ ProfilePresentation = "content"
  /\ profileForm' = IF IsSome(profileForm)
                      THEN Some([Get(profileForm) EXCEPT !.fullName = value])
                      ELSE profileForm
  /\ UNCHANGED <<profileProps, profileQuery, queryCallbacks, profileFetches>>
  /\ UNCHANGED exceptProfile

IdleProfile ==
  /\ profileProps = [initialProfile |-> None, forceLoading |-> TRUE]
  /\ profileForm = None
  /\ profileQuery = MountProfileQuery(profileProps)
  /\ queryCallbacks = FALSE
  /\ profileFetches = 0

\* The page just mounted, for every combination of its two testing props.
InitProfilePage ==
  /\ profileProps \in [initialProfile : {None} \cup {Some(p) : p \in UserProfiles},
                       forceLoading : BOOLEAN]
  /\ profileForm = profileProps.initialProfile
  /\ profileQuery = MountProfileQuery(profileProps)
  /\ queryCallbacks \in BOOLEAN
  /\ profileFetches = IF profileQuery.fetching THEN 1 ELSE 0


(***************************************************************************)
(* ThemeProvider: the mode and its persistence.                            *)
(***************************************************************************)
MaxThemeToggles == 3

\* What SecureStore may hold under the key at start-up.
StoredThemes == {None, Some("light"), Some("dark"), Some("system")}

\* load() of the mount effect: getItemAsync resolves or throws; a stored
\* "dark" or "light" becomes the mode; finally ready is set. The render that
\* follows is the first to mount the children, with this mode.
LoadTheme(ok) ==
  /\ ~themeReady
  /\ themeMode' = IF ok /\ themeStored \in {Some("dark"), Some("light")}
                    THEN Get(themeStored) ELSE themeMode
  /\ themeRendered' = themeMode'
  /\ themeReady' = TRUE
  /\ UNCHANGED <<themeStored, themeWrites, themeToggles, themeWriteFailed, themeOvertaken>>
  /\ UNCHANGED exceptTheme

\* toggleTheme up to its await: nextMode is computed from the mode of the
\* render the function belongs to, and setItemAsync is issued. Only children
\* of the provider can call it, and they exist once ready is true.
ToggleTheme ==
  /\ themeReady
  /\ themeToggles < MaxThemeToggles
  /\ LET nextMode == IF themeRendered = "light" THEN "dark" ELSE "light"
     IN /\ themeMode' = nextMode
        /\ themeWrites' = Append(themeWrites, nextMode)
  /\ themeToggles' = themeToggles + 1
  /\ UNCHANGED <<themeReady, themeRendered, themeStored, themeWriteFailed, themeOvertaken>>
  /\ UNCHANGED exceptTheme

\* The provider re-renders after setMode: value and toggleTheme are rebuilt.
ThemeRerender ==
  /\ themeRendered # themeMode
  /\ themeRendered' = themeMode
  /\ UNCHANGED <<themeMode, themeReady, themeStored, themeWrites, themeToggles,
                 themeWriteFailed, themeOvertaken>>
  /\ UNCHANGED exceptTheme

\* One setItemAsync completes: the store takes its value, or the promise
\* rejects and the catch logs a warning. toggleTheme does not order its
\* writes, so any write in flight may be the next to complete.
ThemeWriteCompletes(i, ok) ==
  /\ i \in 1..Len(themeWrites)
  /\ themeStored' = IF ok THEN Some(themeWrites[i]) ELSE themeStored
  /\ themeWrites' = [j \in 1..(Len(themeWrites) - 1) |->
                       IF j < i THEN themeWrites[j] ELSE themeWrites[j + 1]]
  /\ themeWriteFailed' = (themeWriteFailed \/ ~ok)
  /\ themeOvertaken' = (themeOvertaken \/ i > 1)
  /\ UNCHANGED <<themeMode, themeReady, themeRendered, themeToggles>>
  /\ UNCHANGED exceptTheme

IdleTheme ==
  /\ themeMode = "light"
  /\ themeReady = FALSE
  /\ themeRendered = "light"
  /\ themeStored = None
  /\ themeWrites = <<>>
  /\ themeToggles = 0
  /\ themeWriteFailed = FALSE
  /\ themeOvertaken = FALSE

\* The provider just mounted, for every content of the store.
InitThemeProvider ==
  /\ themeMode = "light"
  /\ themeReady = FALSE
  /\ themeRendered = "light"
  /\ themeStored \in StoredThemes
  /\ themeWrites = <<>>
  /\ themeToggles = 0
  /\ themeWriteFailed = FALSE
  /\ themeOvertaken = FALSE

PersistedSessions ==
  {[user |-> Some("u1"), token |-> Some("t1"), isAuthenticated |-> TRUE, hydrated |-> TRUE]}

InitApi ==
  /\ platform \in {"web", "native"}
  /\ authStore = InitialAuthState
  /\ storage \in [auth_token : Opt(Tokens), auth_state : Opt(PersistedSessions)]
  /\ pending = None
  /\ settled = None
  /\ navigator = AppNavigator(InitialAuthState, NoNavigator)

\* The responses the auth specification answers with: one of each kind.
SampleResponses ==
  {resp \in Responses :
     \/ resp.kind = "network" /\ resp.message = "Failed to fetch"
     \/ resp.kind = "http" /\ resp.status = 200 /\ resp.body.parse = "scalar"}

\* The auth store, the token storage and the requests they feed.
NextAuth ==
  \/ Rehydrate
  \/ \E u \in Users, t \in TokenValues : SetAuth(u, t)
  \/ Logout
  \/ \E t \in Tokens \cup {""} : StoreAuthToken(t)
  \/ RemoveAuthToken
  \/ \E m \in Methods, e \in Endpoints, throws \in BOOLEAN : ApiStart(m, e, throws)
  \/ \E resp \in SampleResponses : ApiSettle(resp)
  \/ \E route \in {"AuthScreen", "SignUp", "StudentDashboard"} : NavigateTo(route)

\* The HTTP client against every response.
NextHttp ==
  \/ \E m \in Methods, e \in Endpoints, throws \in BOOLEAN : ApiStart(m, e, throws)
  \/ \E resp \in Responses : ApiSettle(resp)

IdleDash ==
  /\ state = InitialDashboardState
  /\ tasks = {}
  /\ calls = 0
  /\ fetchStarts = 0
  /\ dataFrom = 0
  /\ finePaid = FALSE
  /\ lastReturn = None

InitAuth == InitApi /\ IdleDash /\ IdleFines /\ IdleDays /\ IdleBook /\ IdleBrowse /\ IdleAvail /\ IdleGreet /\ IdlePassword /\ DashMounted /\ IdleSvc /\ IdleProfile /\ IdleTheme
SpecAuth == InitAuth /\ [][NextAuth]_vars
SpecHttp == InitAuth /\ [][NextHttp]_vars

\* The dashboard hook, with the HTTP client idle.
IdleApi ==
  /\ platform = "web"
  /\ authStore = InitialAuthState
  /\ storage = [auth_token |-> None, auth_state |-> None]
  /\ pending = None
  /\ settled = None
  /\ navigator = AppNavigator(InitialAuthState, NoNavigator)

InitDashboard == IdleApi /\ InitDash /\ IdleFines /\ IdleDays /\ IdleBook /\ IdleBrowse /\ IdleAvail /\ IdleGreet /\ IdlePassword /\ DashMounted /\ IdleSvc /\ IdleProfile /\ IdleTheme
SpecDash == InitDashboard /\ [][NextDash]_vars

\* The fine total, for every overdue response within the bounds.
InitFines == IdleApi /\ IdleDash /\ InitFineInputs /\ IdleDays /\ IdleBook /\ IdleBrowse /\ IdleAvail /\ IdleGreet /\ IdlePassword /\ DashMounted /\ IdleSvc /\ IdleProfile /\ IdleTheme
NextFines == ComputeTotalFines
SpecFines == InitFines /\ [][NextFines]_vars

\* The days-left helpers, for every clock, zone and due date within the bounds.
InitDays == IdleApi /\ IdleDash /\ IdleFines /\ InitDayInputs /\ IdleBook /\ IdleBrowse /\ IdleAvail /\ IdleGreet /\ IdlePassword /\ DashMounted /\ IdleSvc /\ IdleProfile /\ IdleTheme
NextDays == WebRender \/ MobileRender
SpecDays == InitDays /\ [][NextDays]_vars

\* BookDetailView, for every way it is mounted; requests in flight settle.
InitBook == IdleApi /\ IdleDash /\ IdleFines /\ IdleDays /\ InitBookView /\ IdleBrowse /\ IdleAvail /\ IdleGreet /\ IdlePassword /\ DashMounted /\ IdleSvc /\ IdleProfile /\ IdleTheme
BookFetchSettles == \E ok \in BOOLEAN : BookFetchAnswer(ok)
BorrowSettles == \E ok \in BOOLEAN : BorrowAnswer(ok)
NextBook == ClickBorrow \/ BookFetchSettles \/ BorrowSettles
SpecBook ==
  InitBook /\ [][NextBook]_vars /\ WF_vars(BookFetchSettles) /\ WF_vars(BorrowSettles)

\* BookBrowsingPage, for every way it is mounted.
InitBrowse == IdleApi /\ IdleDash /\ IdleFines /\ IdleDays /\ IdleBook /\ InitBrowsePage /\ IdleAvail /\ IdleGreet /\ IdlePassword /\ DashMounted /\ IdleSvc /\ IdleProfile /\ IdleTheme
NextBrowse ==
  \/ SentinelIntersects
  \/ \E r \in 1..MaxRequests, ok \in BOOLEAN : RequestSettles(r, ok)
SpecBrowse == InitBrowse /\ [][NextBrowse]_vars

\* The availability badges, for every status string within the bounds.
InitAvail == IdleApi /\ IdleDash /\ IdleFines /\ IdleDays /\ IdleBook /\ IdleBrowse /\ InitAvailInputs /\ IdleGreet /\ IdlePassword /\ DashMounted /\ IdleSvc /\ IdleProfile /\ IdleTheme
NextAvail == RenderDetailBadge \/ RenderCardBadge
SpecAvail == InitAvail /\ [][NextAvail]_vars

\* The greetings, at every hour of the day.
InitGreet == IdleApi /\ IdleDash /\ IdleFines /\ IdleDays /\ IdleBook /\ IdleBrowse /\ IdleAvail /\ InitGreetInputs /\ IdlePassword /\ DashMounted /\ IdleSvc /\ IdleProfile /\ IdleTheme
NextGreet == WebMount \/ WebRerender \/ MobileHeaderRender \/ HourPasses
SpecGreet == InitGreet /\ [][NextGreet]_vars

\* The change-password panel of UserProfilePage.
InitPassword == IdleApi /\ IdleDash /\ IdleFines /\ IdleDays /\ IdleBook /\ IdleBrowse /\ IdleAvail /\ IdleGreet /\ InitPasswordPanel /\ DashMounted /\ IdleSvc /\ IdleProfile /\ IdleTheme
NextPassword ==
  \/ TogglePasswordPanel
  \/ \E f \in PasswordFields, v \in PasswordValues : TypePassword(f, v)
  \/ ClickUpdatePassword
  \/ \E ok \in BOOLEAN : PasswordAnswer(ok)
SpecPassword == InitPassword /\ [][NextPassword]_vars

\* One call of a resource-service function, for every function and argument.
InitSvc == IdleApi /\ IdleDash /\ IdleFines /\ IdleDays /\ IdleBook /\ IdleBrowse /\ IdleAvail /\ IdleGreet /\ IdlePassword /\ DashMounted /\ IdleSvc /\ IdleProfile /\ IdleTheme
NextSvc ==
  \/ \E call \in ServiceCalls : CallService(call)
  \/ \E outcome \in ClientOutcomes : ClientAnswers(outcome)
SpecSvc == InitSvc /\ [][NextSvc]_vars


\* UserProfilePage loading its profile.
InitProfile == IdleApi /\ IdleDash /\ IdleFines /\ IdleDays /\ IdleBook /\ IdleBrowse /\ IdleAvail /\ IdleGreet /\ IdlePassword /\ DashMounted /\ IdleSvc /\ InitProfilePage /\ IdleTheme
NextProfile ==
  \/ \E ok \in BOOLEAN, data \in UserProfiles : ProfileFetchSettles(ok, data)
  \/ ClickProfileRetry
  \/ \E value \in {"Ada", "Dee", "Eve"} : HandleInputChange(value)
SpecProfile ==
  /\ InitProfile
  /\ [][NextProfile]_vars
  /\ WF_vars(\E ok \in BOOLEAN, data \in UserProfiles : ProfileFetchSettles(ok, data))


\* ThemeProvider and the store of the theme preference.
InitTheme == IdleApi /\ IdleDash /\ IdleFines /\ IdleDays /\ IdleBook /\ IdleBrowse /\ IdleAvail /\ IdleGreet /\ IdlePassword /\ DashMounted /\ IdleSvc /\ IdleProfile /\ InitThemeProvider
NextTheme ==
  \/ \E ok \in BOOLEAN : LoadTheme(ok)
  \/ ToggleTheme
  \/ ThemeRerender
  \/ \E i \in 1..MaxThemeToggles, ok \in BOOLEAN : ThemeWriteCompletes(i, ok)
SpecTheme == InitTheme /\ [][NextTheme]_vars

(***************************************************************************)
(* Claims about the HTTP client and the auth store.                        *)
(***************************************************************************)
\* The request an ApiStart step has just issued.
Issued == pending = None /\ pending' # None

C2_NonOkFailsWithStatus ==
  (settled # None /\ Get(settled).response.kind = "http" /\ ~Ok(Get(settled).response))
    => LET resp == Get(settled).response
           out == Get(settled).outcome
       IN /\ out.kind = "rejected"
          /\ Get(out.error).statusCode = Some(resp.status)
          /\ IF Truthy(resp.body.message)
               THEN Get(out.error).message = Get(resp.body.message)
               ELSE Get(out.error).message # ""
          /\ IsSome(resp.body.errors) => Get(out.error).errors = resp.body.errors

\* What the caller holds after handleApiError, for a settled call that failed.
Normalized == HandleApiError(Get(Get(settled).outcome.error))
NetworkFailed == settled # None /\ Get(settled).response.kind = "network"

CurrentBorrowsInFlight == {t \in tasks : t.pc = "fetching" /\ t.current = "pending"}

\* C4: reads of the current-borrows resource issued before the first one
\* settles (the mount fetch overlapping a refresh() or the refetch inside
\* payFine) are coalesced: at most one network call to the current-borrows
\* endpoint is in flight at any time.
C4_CurrentBorrowsCoalesced == Cardinality(CurrentBorrowsInFlight) <= 1

\* C5: whenever payFine resolves with success: true (on a mounted screen),
\* the overdue data and the fine total held by the hook come from an
\* overdue fetch that the server answered after it processed the payment,
\* whether or not the re-fetch succeeded.
C5_PaySuccessShowsPostPaymentData ==
  [][(dashMounted /\ lastReturn' # lastReturn /\ Get(lastReturn').success) =>
       /\ IsSome(state'.data)
       /\ Get(state'.data).overdueBooks = ServerOverdue(TRUE)
       /\ Get(state'.data).totalFines = TotalFines(ServerOverdue(TRUE))]_vars

(***************************************************************************)
(* Claims about the derived values.                                        *)
(***************************************************************************)
\* The specified days-left value: whole calendar days from today to the due day.
SpecDaysLeft(dueDate, now) == LocalDay(dueDate) - LocalDay(now)

\* C8: calculateDaysLeft equals the number of whole days between midnight of
\* today and midnight of the due day, whatever the times of day, and is -k
\* when the book is k days overdue.
C8_WebDaysLeftIsCalendarDifference ==
  IsSome(webDaysLeft) =>
    Get(webDaysLeft) = SpecDaysLeft(Get(dueInstant), nowInstant)

\* C9: for every due date, getDaysLeft - getDaysOverdue is the specified
\* days-left value, both are non-negative and at most one is non-zero, so a
\* book k days overdue yields getDaysOverdue = k and getDaysLeft = 0.
C9_MobileDaysAgree ==
  (IsSome(mobileDays) /\ IsSome(dueInstant)) =>
    LET m == Get(mobileDays)
        d == SpecDaysLeft(Get(dueInstant), nowInstant)
    IN /\ m.left - m.overdue = d
       /\ m.left >= 0 /\ m.overdue >= 0
       /\ m.left = 0 \/ m.overdue = 0
       /\ d < 0 => (m.overdue = -d /\ m.left = 0)

\* C9 witness: a book two days overdue, across the DST change, is rendered.
C9_Witness ==
  /\ IsSome(mobileDays) /\ IsSome(dueInstant)
  /\ zone = "spring"
  /\ SpecDaysLeft(Get(dueInstant), nowInstant) = -2
  /\ Get(mobileDays).overdue = 2

\* The amount the claim counts for one borrow, and the sum over a list.
Present(a) == a.t \notin {"undefined", "null"}
ClaimedAmount(b) ==
  LET a == IF Present(b.fine) THEN b.fine
           ELSE IF IsSome(b.book) /\ Present(Get(b.book).fineAmount)
             THEN Get(b.book).fineAmount
           ELSE Num(0)
  IN IF a.t = "number" THEN a.v ELSE 0
RECURSIVE ClaimedSum(_, _)
ClaimedSum(l, n) == IF n = 0 THEN 0 ELSE ClaimedSum(l, n - 1) + ClaimedAmount(l[n])
Reorderings(n) == {p \in [1..n -> 1..n] : \A i, j \in 1..n : p[i] = p[j] => i = j}

C6_BorrowSuccessEventuallyCheckedOut ==
  (borrowMutation = "success" /\ bookProps.barcode # "")
    ~> (BookShown = "Checked Out" \/ bookQuery.error)

\* C6, amended: the borrow success always marks the query invalidated; in a
\* view mounted with the book query enabled (a barcode, no initialBookData,
\* no forceLoading) the re-fetch follows and the view eventually shows
\* "Checked Out" unless that re-fetch fails; a view mounted with the query
\* disabled makes no request and keeps the data it was given.
C6_EnabledViewEventuallyCheckedOut ==
  /\ [][(borrowMutation = "pending" /\ borrowMutation' = "success")
          => bookQuery'.isInvalidated]_vars
  /\ (borrowMutation = "success" /\ BookQueryEnabled(bookProps))
       ~> (BookShown = "Checked Out" \/ bookQuery.error)
  /\ [](~BookQueryEnabled(bookProps) =>
          (~bookQuery.fetching /\ bookQuery.data = bookProps.initialBookData))

\* C6 witness: in a view mounted without initial data the borrow succeeded
\* and the re-fetched book is shown as checked out.
C6_Witness ==
  /\ BookQueryEnabled(bookProps)
  /\ borrowMutation = "success"
  /\ ~bookQuery.fetching /\ ~bookQuery.isInvalidated
  /\ BookShown = "Checked Out"

\* C7: a request for page N+1 is issued only when every request for page N
\* has settled, and no page parameter is requested twice.
C7_PagesRequestedOnceInOrder ==
  [][Len(network') > Len(network) =>
       LET new == network'[Len(network')]
       IN \A i \in 1..Len(network) :
            /\ network[i].pageParam # new.pageParam
            /\ network[i].pageParam = new.pageParam - 1 => network[i].settled]_vars

(***************************************************************************)
(* Claims about the presentation helpers.                                  *)
(***************************************************************************)
\* The classification the claim gives a raw status string.
ClaimedKind(str) ==
  IF \E i \in 1..Len(str) : LowerFragment(str[i]) = "available" THEN "available"
  ELSE IF \E i \in 1..Len(str) : LowerFragment(str[i]) = "checked" THEN "checked-out"
  ELSE "on-hold"
ClaimedBadge(str, badge) ==
  /\ badge.kind = ClaimedKind(str)
  /\ ClaimedKind(str) = "on-hold" => badge.label = str

\* C11: in both views a status string containing "available" in any case
\* is classified available, else one containing "checked" checked-out,
\* else on-hold, and an unmatched string is displayed as it was received.
C11_AvailabilityClassified ==
  /\ IsSome(detailBadge) => ClaimedBadge(statusRaw, Get(detailBadge))
  /\ IsSome(cardBadge) => ClaimedBadge(statusRaw, Get(cardBadge))

\* The part of C11 that is about BookBrowsingPage alone.
CardBadgeClassified == IsSome(cardBadge) => ClaimedBadge(statusRaw, Get(cardBadge))

\* The greeting the claim gives an hour.
ClaimedGreeting(h) ==
  IF h < 12 THEN "Good Morning"
  ELSE IF h <= 16 THEN "Good Afternoon"
  ELSE "Good Evening"

\* C12: a dashboard rendered at hour h shows the morning greeting if h < 12,
\* the afternoon greeting if 12 <= h <= 16 and the evening greeting if
\* h >= 17, on the web and on the mobile dashboard.
C12_GreetingFollowsHour ==
  /\ IsSome(webShown) => Get(webShown).text = ClaimedGreeting(Get(webShown).hour)
  /\ IsSome(mobileShown) => Get(mobileShown).text = ClaimedGreeting(Get(mobileShown).hour)

\* The part of C12 that is about the first render of the web dashboard.
WebGreetingAtMount ==
  [][WebMount => Get(webShown').text = ClaimedGreeting(clockHour)]_vars

(***************************************************************************)
(* Claims about the screen states.                                         *)
(***************************************************************************)
\* C13: a data section shows exactly one of loading, populated content,
\* empty-with-call-to-action and error-with-retry, and every error
\* presentation offers an action that starts the failed fetch again (here
\* for the book section of BookDetailView).
C13_OnePresentationErrorHasRetry ==
  /\ BookPresentation \in {"loading", "content", "empty", "error"}
  /\ BookPresentation = "error" =>
       ENABLED (BookUserAction /\ bookQuery'.fetching)

(***************************************************************************)
(* Claims about the dashboard hook's load states.                          *)
(***************************************************************************)
\* C14: in useDashboardData, once isLoading is false it never becomes true
\* again, and data, once set, is never reset to null, under any sequence of
\* refresh(), refetch() and payFine() calls.
C14_NoRevertToLoading ==
  [][/\ ~state.isLoading => ~state'.isLoading
     /\ IsSome(state.data) => IsSome(state'.data)]_vars

\* C14 witness: with data loaded, a refresh is in flight and the screen is
\* not loading.
C14_Witness ==
  /\ IsSome(state.data) /\ ~state.isLoading /\ state.isRefreshing
  /\ \E t \in tasks : t.kind = "refresh" /\ t.pc = "fetching"

\* The only call in flight is a refetch() or refresh() whose two borrow
\* requests have succeeded.
SoleFetchAnswered(t) ==
  /\ dashMounted
  /\ tasks = {t}
  /\ t.kind \in {"fetch", "refresh"}
  /\ t.pc = "fetching" /\ t.current = "ok" /\ t.overdue = "ok"

\* C20: the error state of the load is not absorbing: when a refresh() or
\* refetch() whose requests all succeeded completes with no other call in
\* flight, error is null and data holds the new responses.
C20_ErrorNotAbsorbing ==
  [][\A t \in tasks :
       (SoleFetchAnswered(t) /\ tasks' = {}) =>
         /\ state'.error = None
         /\ IsSome(state'.data)
         /\ Get(state'.data).currentBorrows = ServerCurrent
         /\ Get(state'.data).overdueBooks = ServerOverdue(t.overduePaid)]_vars

\* C20 witness: the first load failed (no data, not loading) and a refresh,
\* alone in flight, has both its requests answered successfully.
C20_Witness ==
  /\ state.data = None /\ ~state.isLoading /\ state.isRefreshing
  /\ \E t \in tasks : SoleFetchAnswered(t) /\ t.kind = "refresh"

(***************************************************************************)
(* Claims about mutations.                                                 *)
(***************************************************************************)
\* C15: no change-password request is issued while newPassword differs from
\* confirmPassword, whatever the three fields hold, an empty confirmPassword
\* or newPassword included.
C15_NoRequestOnMismatch ==
  \A i \in 1..Len(passwordCalls) :
    passwordCalls[i].payload.newPassword = passwordCalls[i].payload.confirmPassword

\* What the Borrow Book bar of BookDetailView renders for a mutation status.
BorrowBar(status) ==
  [disabled |-> status = "pending",
   label |-> IF status = "pending" THEN "Borrowing..." ELSE "Borrow Book"]

\* C16: when a mutation fails the data shown is the data cached before it
\* started and the failure is surfaced next to the control that triggered
\* it (here the borrow of BookDetailView: the view rendered after the
\* failure differs from the one rendered before any borrow).
C16_MutationFailureSurfaced ==
  [][(borrowMutation = "pending" /\ borrowMutation' = "error") =>
       /\ bookQuery' = bookQuery
       /\ BorrowBar(borrowMutation') # BorrowBar("idle")]_vars

\* The frame half of C16 for the borrow: a failed borrow leaves the query.
BorrowFailureLeavesData ==
  [][(borrowMutation = "pending" /\ borrowMutation' = "error") =>
       bookQuery' = bookQuery]_vars

(***************************************************************************)
(* Claims about deterministic rendering.                                   *)
(***************************************************************************)
\* C17: a screen mounted with forceLoading, or with initial data injected
\* for every query it owns, issues no network request while it stays
\* mounted (here BookBrowsingPage, which owns the books-browse query).
C17_InjectedScreensStayOffline ==
  (browseProps.forceLoading \/ IsSome(browseProps.initialData)) => network = <<>>

\* The forceLoading half of C17 for BookBrowsingPage.
ForceLoadingStaysOffline == browseProps.forceLoading => network = <<>>

\* The same for BookDetailView's book query: with forceLoading or
\* initialBookData it never fetches.
BookQueryStaysOffline ==
  (bookProps.forceLoading \/ IsSome(bookProps.initialBookData)) => ~bookQuery.fetching

C19_OneClientCallPassedThrough ==
  /\ IsSome(svcCall) => Len(svcHttp) = 1
  /\ IsSome(svcResult) => svcResult = svcAnswer

\* The same for every call but searchBooks with a blank query.
NonBlankCallsPassThrough ==
  (IsSome(svcCall) /\ ~(Get(svcCall).fn = "searchBooks" /\ Trim(Get(svcCall).args[1]) = <<>>)) =>
    /\ Len(svcHttp) = 1
    /\ IsSome(svcResult) => svcResult = svcAnswer

(***************************************************************************)
(* Claims about UserProfilePage loading its profile.                       *)
(***************************************************************************)
\* C21 (as stated): on a page mounted without initialProfile and without
\* forceLoading, once GET /profile has succeeded the page eventually shows
\* the fetched profile as content.
C21_FetchedProfileShown ==
  (/\ profileProps.initialProfile = None
   /\ ~profileProps.forceLoading
   /\ profileQuery.status = "success")
    ~> (ProfilePresentation = "content")

\* What holds of the page: where the library runs the query's onSuccess
\* option, a successful fetch is shown as content at once.
CallbackCopiesProfile ==
  (queryCallbacks /\ profileQuery.status = "success") =>
    ProfilePresentation = "content"

(***************************************************************************)
(* Claims about overlapping calls of useDashboardData.                     *)
(***************************************************************************)
\* C22 (as stated): the result of a fetchData call that started earlier never
\* overwrites, by arriving later, the data written by a fetchData call that
\* started after it; so once every fetch has settled data is that of the
\* latest-started fetch that succeeded.
C22_LaterFetchNotOverwritten == [][dataFrom' >= dataFrom]_vars

\* C23 (as stated): while the screen is mounted, isPaying is true exactly
\* while some payFine call has started and not settled, and isRefreshing is
\* true exactly while some refresh call has started and not settled, also
\* when calls overlap.
C23_BusyFlagsFollowCalls ==
  dashMounted =>
    /\ state.isPaying = (\E t \in tasks : t.kind = "pay")
    /\ state.isRefreshing = (\E t \in tasks : t.kind = "refresh")

\* A step in which fetchData call t ends: it was fetching and is gone.
FetchEnds(t) ==
  /\ t \in tasks /\ t.pc = "fetching" /\ dashMounted
  /\ \A u \in tasks' : u.id # t.id

C25_EmptyOnlyAtEndOfListing ==
  (availabilityFilter # AllFilter /\ BrowsePresentation = "empty") => ~HasNextPage

(***************************************************************************)
(* Claims about successful responses of the HTTP client.                   *)
(***************************************************************************)
\* C26 (as stated): an apiClient call whose response has a 2xx status
\* resolves, also when the body is empty or is not JSON.
C26_SuccessStatusResolves ==
  (IsSome(settled) /\ Get(settled).response.kind = "http" /\ Ok(Get(settled).response)) =>
    Get(settled).outcome.kind = "resolved"

\* What holds of the client: a 2xx response whose body parses as JSON
\* resolves with the parsed body.
ParsedSuccessResolves ==
  (/\ IsSome(settled)
   /\ Get(settled).response.kind = "http"
   /\ Ok(Get(settled).response)
   /\ Get(settled).response.body.parse # "fail") =>
    Get(settled).outcome = Resolved(Get(settled).response.body)

(***************************************************************************)
(* Claims about the badge and the Borrow bar of BookDetailView.            *)
(***************************************************************************)
\* C27 (as stated): for every value of book.availability, a missing or empty
\* one included, the Borrow button is shown exactly when the badge rendered
\* for the book reads "Available".
C27_BadgeAndBorrowAgree ==
  IsSome(detailBadge) =>
    ((Get(detailBadge).label = <<"Available">>) <=> BorrowBarShown(statusRaw))

\* What holds of the view: the two agree for every availability that is not
\* missing or empty.
NonEmptyBadgeAndBorrowAgree ==
  (IsSome(detailBadge) /\ statusRaw # <<>>) =>
    ((Get(detailBadge).label = <<"Available">>) <=> BorrowBarShown(statusRaw))

(***************************************************************************)
(* Claims about the auth store's session fields.                           *)
(***************************************************************************)
\* C28: whatever setAuth and logout calls were made, isAuthenticated is true
\* exactly when token is a non-empty string; a logout leaves user and token
\* null and isAuthenticated false; neither call changes hydrated.
C28_SessionFieldsConsistent ==
  /\ [](authStore.isAuthenticated <=>
          (authStore.token # None /\ Get(authStore.token) # ""))
  /\ [][/\ Logout => /\ authStore'.user = None
                     /\ authStore'.token = None
                     /\ ~authStore'.isAuthenticated
                     /\ authStore'.hydrated = authStore.hydrated
        /\ (\E u \in Users, t \in TokenValues : SetAuth(u, t)) =>
             authStore'.hydrated = authStore.hydrated]_vars

\* setAuth was called with a user and an empty token on the hydrated store.
C28_Witness ==
  /\ authStore.hydrated
  /\ authStore.user # None
  /\ authStore.token = Some("")
  /\ ~authStore.isAuthenticated

(***************************************************************************)
(* Claims about AppNavigator.                                              *)
(***************************************************************************)
\* C29: the StudentDashboard route is mounted only while hydrated and
\* isAuthenticated are both true; while hydrated is false no route is mounted;
\* once hydrated with isAuthenticated false the routes are AuthScreen and
\* SignUp and the current route is one of them.
C29_DashboardBehindHydratedSession ==
  /\ ("StudentDashboard" \in navigator.routes \/ navigator.current = Some("StudentDashboard"))
       => (authStore.hydrated /\ authStore.isAuthenticated)
  /\ ~authStore.hydrated => navigator = NoNavigator
  /\ (authStore.hydrated /\ ~authStore.isAuthenticated) =>
       /\ navigator.routes = {"AuthScreen", "SignUp"}
       /\ navigator.current \in {Some("AuthScreen"), Some("SignUp")}

\* setAuth stored an empty token while SignUp was the current route: the
\* store is hydrated without a session and the auth stack is still rendered.
C29_Witness ==
  /\ authStore.hydrated
  /\ ~authStore.isAuthenticated
  /\ authStore.token = Some("")
  /\ navigator.current = Some("SignUp")

(***************************************************************************)
(* Claims about ThemeProvider.                                             *)
(***************************************************************************)
\* C30 (as stated): after any toggleTheme calls, once every write has
\* completed and none has failed, the value stored under
\* "portlib-theme-mode" is the current mode; and no toggleTheme call precedes
\* the start-up load, so the loaded preference never replaces a toggled mode.
C30_StoredThemeIsCurrentMode ==
  /\ (themeToggles > 0 /\ themeWrites = <<>> /\ ~themeWriteFailed) =>
       themeStored = Some(themeMode)
  /\ themeToggles > 0 => themeReady

\* What holds of the provider: the same, where no write completed ahead of a
\* write issued before it.
InOrderWritesStoreCurrentMode ==
  /\ (themeToggles > 0 /\ themeWrites = <<>> /\ ~themeWriteFailed /\ ~themeOvertaken) =>
       themeStored = Some(themeMode)
  /\ themeToggles > 0 => themeReady

====
